---- MODULE Spec2Model ----
(***************************************************************************)
(* Beam search decoding: keras_nlp/samplers/beam_sampler.py, BeamSampler.  *)
(*                                                                         *)
(* One behaviour is one sampler object (constructed in Init) and one       *)
(* decode call on it: Call sets up the beam state, Body is one iteration   *)
(* of the loop (cond holds, body runs), ReturnAllBeams / ReturnTopBeam end *)
(* the call once the loop has stopped.  Spec is the calls whose arguments  *)
(* are well formed; SpecAnyArgs adds the calls with num_beams < 1 and with *)
(* a mask of another batch size, and the exceptions the tensor operations   *)
(* raise on them (CallFails, CondRaises, BodyRaises).                      *)
(*                                                                         *)
(* Tensors are functions over 0-based index ranges, as in the source.      *)
(* Probabilities are counted in quarters (4 = probability 1) and           *)
(* log-probabilities in units of log 2, so that every score of the model   *)
(* is an exact integer; the float32 effects that decide the code's         *)
(* behaviour (-1e9 absorbing a small addend, log 0 = -inf) are kept.       *)
(***************************************************************************)
EXTENDS Integers, Sequences, FiniteSets, TLC

\* Bounds of the model.
MaxBatch == 2
MaxBeams == 2
MaxLen == 2
MaxRows == 4
MaxCells == 4

\* Token ids (the vocabulary axis of the logits).
Vocab == {0, 1}
vocab_size == Cardinality(Vocab)

\* None where a token id is expected (end_token_id=None).
None == -1
\* None where a tensor is expected (mask=None, nothing returned yet).
NoTensor == << >>

\* -1e9, the initial log-likelihood of every beam but the first.
Sentinel == -1000
\* ops.log(0.0) = -inf.
NegInf == -1000000

VARIABLES
    pc,                \* "idle" | "loop" | "done" | "error"
    num_beams,         \* self.num_beams
    return_all_beams,  \* self.return_all_beams
    caller_prompt,     \* the prompt argument, (batch, length)
    caller_mask,       \* the mask argument, None or (batch, length)
    caller_cache,      \* the cache argument, None or one leaf, (batch, ...)
    start_index,       \* the index argument
    end_token_id,      \* the end_token_id argument, None or a token
    has_cache,         \* cache is not None
    batch_size,
    max_length,
    prompt,            \* loop variable, (batch * beams, length)
    mask,              \* replicated mask, (batch * beams, length)
    cache,             \* loop variable, one leaf, (batch * beams, ...)
    index,             \* loop variable
    log_probs,         \* loop variable, (batch * beams,)
    iterations,        \* iterations run_loop has performed
    probs,             \* the distribution of the last step, (batch * beams, vocab)
    indices,           \* top_k's indices of the last step, (batch, beams)
    written,           \* the positions body has written, in order
    greedy,            \* argmax decoding on the same oracle (num_beams = 1)
    result,            \* what the call returned
    oracle_calls,      \* how many times next has been invoked
    last_call,         \* the arguments of the last invocation of next
    prev_log_probs,    \* log_probs as the last step found it
    root,              \* per row, the initial beam its hypothesis descends from
    selected_sum,      \* per row, the log-probabilities of the tokens top_k selected
    held_sum,          \* per row, the log-probabilities of the tokens the row holds
    nonzero_probs      \* no probability the oracle has given so far is zero

vars == <<pc, num_beams, return_all_beams, caller_prompt, caller_mask, start_index,
          end_token_id, has_cache, batch_size, max_length, prompt, mask, cache,
          index, log_probs, iterations, probs, indices, written, greedy, result,
          caller_cache, oracle_calls, last_call, prev_log_probs, root, selected_sum,
          held_sum, nonzero_probs>>

config == <<num_beams, return_all_beams, caller_prompt, caller_mask, caller_cache,
            start_index, end_token_id, has_cache, batch_size, max_length, mask>>

history == <<oracle_calls, last_call, prev_log_probs, root, selected_sum, held_sum,
             nonzero_probs>>

----------------------------------------------------------------------------
\* Shapes and the beam axis.

Range(n) == 0 .. (n - 1)

Max0(n) == IF n > 0 THEN n ELSE 0

\* The size of axis 0.
Len0(x) == Cardinality(DOMAIN x)

\* The number of elements of a (rows, columns) tensor with at least one row.
NumElements(x) == Len0(x) * Len0(x[0])

Rows == Range(batch_size * num_beams)

Positions == Range(max_length)

\* ops.repeat(x, k, axis=0)
Repeat(x, k) == [r \in Range(Cardinality(DOMAIN x) * k) |-> x[r \div k]]

\* A replication that repeats by the batch size instead of the beam count.
create_beams_ByBatch(x) == Repeat(x, Cardinality(DOMAIN x))

create_beams(x) == Repeat(x, num_beams)

flatten_beams(x) == [r \in Range(batch_size * num_beams) |-> x[r \div num_beams][r % num_beams]]

unflatten_beams(x) == [b \in Range(batch_size) |-> [k \in Range(num_beams) |-> x[b * num_beams + k]]]

\* ops.repeat raises on a negative number of repetitions.
RepeatFails(k) == k < 0

\* ops.reshape raises when the shape asks for another number of elements.
ReshapeFails(x, n) == NumElements(x) # n

\* [0.0] + [-1e9] * (num_beams - 1): a list times a count below one is empty.
InitialRow(K) == [k \in Range(1 + Max0(K - 1)) |-> IF k = 0 THEN 0 ELSE Sentinel]

\* Initial scores of exactly num_beams entries per batch element, none when
\* there is no beam.
InitialLogProbs_ExactlyK(B, K) ==
    [b \in Range(B) |-> [k \in Range(K) |-> IF k = 0 THEN 0 ELSE Sentinel]]

\* ops.array([[0.0] + [-1e9] * (num_beams - 1)]), repeated over the batch.
InitialLogProbs(B, K) == [b \in Range(B) |-> InitialRow(K)]

\* What stops __call__ before the loop: create_beams of the prompt (line 142)
\* and flatten_beams of the initial scores (line 149).
SetUpFails(B) ==
    RepeatFails(num_beams) \/ ReshapeFails(InitialLogProbs(B, num_beams), B * num_beams)

----------------------------------------------------------------------------
\* Numbers.

\* float32 addition on the scores the model reaches: -inf absorbs everything,
\* and -1e9 (ulp 64) absorbs the log-probability of one step.
FAdd(a, b) ==
    IF a = NegInf \/ b = NegInf THEN NegInf
    ELSE IF a = Sentinel THEN Sentinel
    ELSE a + b

\* A logarithm with the sign of the finite values turned.
Log_SignTurned(q) ==
    CASE q = 4 -> 0
      [] q = 2 -> 1
      [] q = 1 -> 2
      [] q = 0 -> NegInf

\* ops.log of a probability given in quarters, in units of log 2.
Log(q) ==
    CASE q = 4 -> 0
      [] q = 2 -> -1
      [] q = 1 -> -2
      [] q = 0 -> NegInf

RECURSIVE SumOver(_, _)
SumOver(f, S) ==
    IF S = {} THEN 0
    ELSE LET t == CHOOSE t \in S : TRUE IN f[t] + SumOver(f, S \ {t})

\* What compute_probabilities(logits) can be: a distribution over the
\* vocabulary (non-negative, summing to one), here with dyadic entries.
Dists == {d \in [Vocab -> {0, 1, 2, 4}] : SumOver(d, Vocab) = 4}

----------------------------------------------------------------------------
\* The loop.

\* Broadcasting along axis 0: sizes agree or one of them is 1, and a tensor
\* of one row stands for every row.
Broadcastable(n, m) == n = m \/ n = 1 \/ m = 1

BroadcastRows == IF Len0(mask) > Len0(prompt) THEN DOMAIN mask ELSE DOMAIN prompt

RowOf(x, r) == IF Len0(x) = 1 THEN x[0] ELSE x[r]

\* (prompt == end_token_id) & (~mask) raises when the shapes do not broadcast.
CondShapesClash == end_token_id # None /\ ~Broadcastable(Len0(prompt), Len0(mask))

\* ops.where(mask[:, index], prompt[:, index], next_token) raises when the
\* shapes do not broadcast, ops.slice_update when the update has more rows
\* than the prompt.
StepShapesClash == ~Broadcastable(Len0(prompt), Len0(mask)) \/ Len0(mask) > Len0(prompt)

\* cond, lines 151-157.
EndTokens(p) ==
    [r \in BroadcastRows |->
        [i \in Positions |-> RowOf(p, r)[i] = end_token_id /\ ~RowOf(mask, r)[i]]]

PromptDone(p) == [r \in BroadcastRows |-> \E i \in Positions : EndTokens(p)[r][i]]

\* A termination test that is content with one finished beam per batch element.
cond_OneBeamPerElement(p) ==
    IF end_token_id = None THEN TRUE
    ELSE ~(\A b \in Range(batch_size) : \E k \in Range(num_beams) : PromptDone(p)[b * num_beams + k])

cond(p) ==
    IF end_token_id = None THEN TRUE
    ELSE ~(\A r \in BroadcastRows : PromptDone(p)[r])

\* A loop budget that is one step short.
MaximumIterations_OneShort == max_length - start_index - 1

\* A loop budget that forgets the start index.
MaximumIterations_IgnoresIndex == max_length

\* maximum_iterations=(max_length - index), line 210.
MaximumIterations == max_length - start_index

\* Sampler.run_loop: a while loop over cond and body that stops after
\* maximum_iterations iterations at the latest.
LoopContinues == iterations < MaximumIterations /\ cond(prompt)

\* Candidate scores that forget what the beam has accumulated so far.
NextLogProbs_NoCarry(pr) ==
    [b \in Range(batch_size) |->
        [j \in Range(num_beams * vocab_size) |->
            Log(pr[b * num_beams + (j \div vocab_size)][j % vocab_size])]]

\* next_log_probs, lines 166-168: (batch, beams * vocab).
NextLogProbs(pr) ==
    [b \in Range(batch_size) |->
        [j \in Range(num_beams * vocab_size) |->
            FAdd(log_probs[b * num_beams + (j \div vocab_size)],
                 Log(pr[b * num_beams + (j \div vocab_size)][j % vocab_size]))]]

\* i comes before j in top_k's ranking of v: larger first, lower index on ties.
Before(v, i, j) == v[i] > v[j] \/ (v[i] = v[j] /\ i < j)

\* A selection that keeps the first k candidates whatever they score.
TopKSet_FirstK(v, k) == {i \in DOMAIN v : i < k}

\* The indices ops.top_k(v, k) selects.
TopKSet(v, k) == {i \in DOMAIN v : Cardinality({j \in DOMAIN v : Before(v, j, i)}) < k}

\* A selection that may return the same candidate more than once.
TopKOrders_WithRepeats(v, k) == [Range(k) -> TopKSet(v, k)]

\* ops.top_k(v, k, sorted=False): the selected indices in any order.
TopKOrders(v, k) ==
    {f \in [Range(k) -> TopKSet(v, k)] : \A x, y \in Range(k) : x # y => f[x] # f[y]}

\* Beam indices that leave every beam in its slot.
BeamIndices_InPlace(ind) == [b \in Range(batch_size) |-> [k \in Range(num_beams) |-> k]]

\* beam_indices = indices // vocab_size, line 174.
BeamIndices(ind) ==
    [b \in Range(batch_size) |-> [k \in Range(num_beams) |-> ind[b][k] \div vocab_size]]

\* A token recovered with the division meant for the beam index.
NextToken_Div(ind) ==
    flatten_beams([b \in Range(batch_size) |-> [k \in Range(num_beams) |-> ind[b][k] \div vocab_size]])

\* next_token = flatten_beams(indices % vocab_size), line 175.
NextToken(ind) ==
    flatten_beams([b \in Range(batch_size) |-> [k \in Range(num_beams) |-> ind[b][k] % vocab_size]])

\* ops.take_along_axis(x, idx, axis=1) on a (batch, beams, ...) tensor.
TakeAlongAxis(x, idx) ==
    [b \in Range(batch_size) |-> [k \in Range(num_beams) |-> x[b][idx[b][k]]]]

\* A gather that reads every batch element's beams from the first element.
gather_beams_FromFirstElement(x, beam_indices) ==
    flatten_beams([b \in Range(batch_size) |->
                      [k \in Range(num_beams) |-> unflatten_beams(x)[0][beam_indices[b][k]]]])

\* gather_beams, lines 184-190.
gather_beams(x, beam_indices) ==
    flatten_beams(TakeAlongAxis(unflatten_beams(x), beam_indices))

\* The flat row each retained beam was gathered from.
OriginRows(beam_indices) ==
    [r \in Rows |-> (r \div num_beams) * num_beams + beam_indices[r \div num_beams][r % num_beams]]

\* The arguments of an invocation that is handed a later position.
OracleArgs_NextIndex == [prompt |-> prompt, cache |-> cache, index |-> index + 1]

\* next(prompt, cache, index), line 161.
OracleArgs == [prompt |-> prompt, cache |-> cache, index |-> index]

\* The cache the oracle hands back: per row, what it was given plus the row
\* it has just seen.
OracleCache(c, p) == IF has_cache THEN [r \in Rows |-> Append(c[r], p[r])] ELSE c

\* A cache left in its slots while the sequences are gathered.
NextCache_NotGathered(c, beam_indices) == c

\* if has_cache: cache = tree.map_structure(gather_beams, cache), lines 193-194.
NextCache(c, beam_indices) == IF has_cache THEN gather_beams(c, beam_indices) ELSE c

\* A sum of log-probabilities in exact arithmetic, log 0 = -inf included.
ExactAdd(a, b) == IF a = NegInf \/ b = NegInf THEN NegInf ELSE a + b

\* An argmax that returns the last index of the largest entry.
ArgMax_LastOccurrence(v) ==
    CHOOSE i \in DOMAIN v : \A j \in DOMAIN v : v[i] > v[j] \/ (v[i] = v[j] /\ i >= j)

\* ops.argmax(v): the first index of the largest entry.
ArgMax(v) == CHOOSE i \in DOMAIN v : \A j \in DOMAIN v : Before(v, i, j) \/ i = j

\* A token write that ignores the mask.
UpdateAt_NoMask(p, i, next_token) ==
    [r \in DOMAIN p |-> [q \in DOMAIN p[r] |-> IF q = i THEN next_token[r] ELSE p[r][q]]]

\* ops.where(mask[:, index], prompt[:, index], next_token) and
\* ops.slice_update(prompt, [0, index], next_token), lines 197-202.
UpdateAt(p, i, next_token) ==
    [r \in DOMAIN p |->
        [q \in DOMAIN p[r] |->
            IF q = i THEN (IF RowOf(mask, r)[q] THEN p[r][q] ELSE next_token[r]) ELSE p[r][q]]]

\* Greedy decoding of the same step: argmax of the distribution, written
\* where the mask allows.
GreedyStep(g, pr) == UpdateAt(g, index, [r \in Rows |-> ArgMax(pr[r])])

----------------------------------------------------------------------------
\* The inputs of a call.

PromptRows(L) == {[p \in Range(L) |-> p % vocab_size], [p \in Range(L) |-> 1]}

MaskRows(L) == [Range(L) -> BOOLEAN]

\* The sampler after __init__, lines 97-105: num_beams is stored unchecked.
InitWith(beams) ==
    /\ pc = "idle"
    /\ num_beams \in beams
    /\ return_all_beams \in BOOLEAN
    /\ caller_prompt = << >>
    /\ caller_mask = NoTensor
    /\ caller_cache = NoTensor
    /\ start_index = 0
    /\ end_token_id = None
    /\ has_cache = FALSE
    /\ batch_size = 0
    /\ max_length = 0
    /\ prompt = << >>
    /\ mask = << >>
    /\ cache = << >>
    /\ index = 0
    /\ log_probs = << >>
    /\ iterations = 0
    /\ probs = << >>
    /\ indices = << >>
    /\ written = << >>
    /\ greedy = << >>
    /\ result = NoTensor
    /\ oracle_calls = 0
    /\ last_call = NoTensor
    /\ prev_log_probs = << >>
    /\ root = << >>
    /\ selected_sum = << >>
    /\ held_sum = << >>
    /\ nonzero_probs = TRUE

Init == InitWith(1 .. MaxBeams)

\* __call__ up to the loop, lines 117-149, on given arguments.
SetUp(B, L, p, m, i, e, hc) ==
    /\ caller_prompt' = p
    /\ caller_mask' = m
    /\ caller_cache' = IF hc THEN [b \in Range(B) |-> << >>] ELSE NoTensor
    /\ start_index' = i
    /\ end_token_id' = e
    /\ has_cache' = hc
    /\ batch_size' = B
    /\ max_length' = L
    /\ prompt' = create_beams(p)
    /\ mask' = IF m = NoTensor
                 THEN create_beams([b \in Range(B) |-> [q \in Range(L) |-> FALSE]])
                 ELSE create_beams(m)
    /\ cache' = IF hc THEN create_beams([b \in Range(B) |-> << >>]) ELSE << >>
    /\ index' = i
    /\ log_probs' = [r \in Range(B * num_beams) |->
                        InitialLogProbs(B, num_beams)[r \div num_beams][r % num_beams]]
    /\ greedy' = create_beams(p)
    /\ pc' = "loop"
    /\ iterations' = 0
    /\ written' = << >>
    /\ oracle_calls' = 0
    /\ last_call' = NoTensor
    /\ prev_log_probs' = << >>
    /\ root' = [r \in Range(B * num_beams) |-> r % num_beams]
    /\ selected_sum' = [r \in Range(B * num_beams) |-> 0]
    /\ held_sum' = [r \in Range(B * num_beams) |-> 0]
    /\ nonzero_probs' = TRUE
    /\ UNCHANGED <<num_beams, return_all_beams, probs, indices, result>>

\* A call whose mask, when given, has the shape of the prompt.
Call ==
    /\ pc = "idle"
    /\ \E B \in 1 .. MaxBatch, L \in 1 .. MaxLen :
        /\ B * num_beams <= MaxRows
        /\ B * num_beams * L <= MaxCells
        /\ ~SetUpFails(B)
        /\ \E p \in [Range(B) -> PromptRows(L)],
              m \in [Range(B) -> MaskRows(L)] \cup {NoTensor},
              i \in 0 .. (L + 1),
              e \in Vocab \cup {None},
              hc \in BOOLEAN :
            SetUp(B, L, p, m, i, e, hc)

\* What one iteration does to the loop variables: cond holds and body runs,
\* lines 151-204.
Step ==
    /\ pc = "loop"
    /\ ~CondShapesClash
    /\ LoopContinues
    /\ ~StepShapesClash
    /\ \E pr \in [Rows -> Dists] :
        LET next_log_probs == NextLogProbs(pr)
            orders == [b \in Range(batch_size) |-> TopKOrders(next_log_probs[b], num_beams)]
        IN \E ind \in [Range(batch_size) -> UNION {orders[b] : b \in Range(batch_size)}] :
            /\ \A b \in Range(batch_size) : ind[b] \in orders[b]
            /\ LET beam_indices == BeamIndices(ind)
                   next_token == NextToken(ind)
                   new_prompt == UpdateAt(gather_beams(prompt, beam_indices), index, next_token)
                   origin == OriginRows(beam_indices)
               IN /\ probs' = pr
                  /\ indices' = ind
                  /\ log_probs' = flatten_beams(TakeAlongAxis(next_log_probs, ind))
                  /\ prompt' = new_prompt
                  /\ cache' = NextCache(OracleCache(cache, prompt), beam_indices)
                  /\ greedy' = IF num_beams = 1 THEN GreedyStep(greedy, pr) ELSE greedy
                  /\ root' = [r \in Rows |-> root[origin[r]]]
                  /\ selected_sum' =
                        [r \in Rows |->
                            ExactAdd(selected_sum[origin[r]], Log(pr[origin[r]][next_token[r]]))]
                  /\ nonzero_probs' = (nonzero_probs /\ \A r \in Rows, t \in Vocab : pr[r][t] > 0)
                  /\ held_sum' =
                        [r \in Rows |->
                            IF index \in DOMAIN new_prompt[r]
                            THEN ExactAdd(held_sum[origin[r]],
                                          Log(pr[origin[r]][new_prompt[r][index]]))
                            ELSE held_sum[origin[r]]]
    /\ oracle_calls' = oracle_calls + 1
    /\ last_call' = OracleArgs
    /\ prev_log_probs' = log_probs
    /\ index' = index + 1
    /\ iterations' = iterations + 1
    /\ written' = Append(written, index)

\* An iteration whose token write lands in the caller's prompt as well.
Body_WritesThrough ==
    /\ Step
    /\ caller_prompt' = [b \in Range(batch_size) |-> prompt'[b * num_beams]]
    /\ UNCHANGED <<pc, num_beams, return_all_beams, caller_mask, caller_cache, start_index,
                   end_token_id, has_cache, batch_size, max_length, mask, result>>

\* One iteration of the loop, lines 159-204: prompt, cache, index and
\* log_probs are the loop variables, everything else is left alone.
Body ==
    /\ Step
    /\ UNCHANGED <<pc, config, result>>

\* ops.argsort(x): a permutation that puts x in ascending order.
ArgSorts(x) ==
    {f \in [DOMAIN x -> DOMAIN x] :
        /\ \A i, j \in DOMAIN x : i # j => f[i] # f[j]
        /\ \A i, j \in DOMAIN x : i < j => x[f[i]] <= x[f[j]]}

\* Sort keys without the negation: an ascending sort of the scores.
SortKeys_NotNegated(x) == x

\* Sequences left in beam order while the scores are sorted.
SortedPrompts_Unsorted(all_prompts, sorted_indices) == all_prompts

\* -all_log_probs, the keys of the sort, line 217.
SortKeys(x) == [i \in DOMAIN x |-> -x[i]]

\* The sequences of the sorted beams, lines 223-227.
SortedPrompts(all_prompts, sorted_indices) ==
    TakeAlongAxis(all_prompts, sorted_indices)

\* The scores of the sorted beams, lines 218-222.
SortedLogProbs(all_log_probs, sorted_indices) == TakeAlongAxis(all_log_probs, sorted_indices)

\* return_all_beams, lines 213-228.
ReturnAllBeams ==
    /\ pc = "loop"
    /\ ~CondShapesClash
    /\ ~LoopContinues
    /\ return_all_beams
    /\ LET all_prompts == unflatten_beams(prompt)
           all_log_probs == unflatten_beams(log_probs)
       IN \E sorted_indices \in [Range(batch_size) -> [Range(num_beams) -> Range(num_beams)]] :
            /\ \A b \in Range(batch_size) : sorted_indices[b] \in ArgSorts(SortKeys(all_log_probs[b]))
            /\ result' = [sorted_prompts |-> SortedPrompts(all_prompts, sorted_indices),
                          sorted_log_probs |-> SortedLogProbs(all_log_probs, sorted_indices)]
    /\ pc' = "done"
    /\ UNCHANGED <<config, prompt, cache, index, log_probs, iterations, probs, indices, written,
                   greedy, history>>

\* The top beam of each batch element, lines 229-233.
ReturnTopBeam ==
    /\ pc = "loop"
    /\ ~CondShapesClash
    /\ ~LoopContinues
    /\ ~return_all_beams
    /\ LET all_prompts == unflatten_beams(prompt)
           all_log_probs == unflatten_beams(log_probs)
           top_beams == [b \in Range(batch_size) |-> ArgMax(all_log_probs[b])]
       IN result' = [b \in Range(batch_size) |-> all_prompts[b][top_beams[b]]]
    /\ pc' = "done"
    /\ UNCHANGED <<config, prompt, cache, index, log_probs, iterations, probs, indices, written,
                   greedy, history>>

Next == Call \/ Body \/ ReturnAllBeams \/ ReturnTopBeam

Spec == Init /\ [][Next]_vars

----------------------------------------------------------------------------
\* Calls whose arguments are not what the class asks for.

\* A sampler built with any num_beams.
InitAnyArgs == InitWith(-1 .. MaxBeams)

\* A call whose mask has another batch size than the prompt: nothing in
\* lines 134-143 compares the shapes.
MismatchedCall ==
    /\ pc = "idle"
    /\ \E B \in 1 .. MaxBatch, MB \in 1 .. MaxBatch, L \in 1 .. MaxLen :
        /\ MB # B
        /\ B * num_beams <= MaxRows
        /\ B * num_beams * L <= MaxCells
        /\ ~SetUpFails(B)
        /\ \E p \in [Range(B) -> PromptRows(L)],
              m \in [Range(MB) -> MaskRows(L)],
              i \in 0 .. (L + 1),
              e \in Vocab \cup {None},
              hc \in BOOLEAN :
            SetUp(B, L, p, m, i, e, hc)

\* __call__ raises before the loop, lines 142-149.
CallFails ==
    /\ pc = "idle"
    /\ \E B \in 1 .. MaxBatch : SetUpFails(B)
    /\ pc' = "error"
    /\ UNCHANGED <<config, prompt, cache, index, log_probs, iterations, probs, indices, written,
                   greedy, result, history>>

\* cond raises, lines 154-155.
CondRaises ==
    /\ pc = "loop"
    /\ CondShapesClash
    /\ pc' = "error"
    /\ UNCHANGED <<config, prompt, cache, index, log_probs, iterations, probs, indices, written,
                   greedy, result, history>>

\* body raises after it has invoked next, lines 161 and 199-202.
BodyRaises ==
    /\ pc = "loop"
    /\ ~CondShapesClash
    /\ LoopContinues
    /\ StepShapesClash
    /\ pc' = "error"
    /\ oracle_calls' = oracle_calls + 1
    /\ last_call' = OracleArgs
    /\ UNCHANGED <<config, prompt, cache, index, log_probs, iterations, probs, indices, written,
                   greedy, result, prev_log_probs, root, selected_sum, held_sum,
                   nonzero_probs>>

NextAnyArgs ==
    \/ Call
    \/ MismatchedCall
    \/ CallFails
    \/ Body
    \/ CondRaises
    \/ BodyRaises
    \/ ReturnAllBeams
    \/ ReturnTopBeam

SpecAnyArgs == InitAnyArgs /\ [][NextAnyArgs]_vars

----------------------------------------------------------------------------
\* Vocabulary of the properties.

\* The caller marked position p of batch element b as fixed.
CallerMask(b, p) == caller_mask # NoTensor /\ caller_mask[b][p]

\* seq holds the caller's token of batch element b wherever the caller's mask is true.
KeepsFixed(seq, b) == \A p \in Positions : CallerMask(b, p) => seq[p] = caller_prompt[b][p]

\* The position the last step wrote.
LastPosition == index - 1

\* Steps are left in the budget of length - start_index.
BudgetLeft == iterations < max_length - start_index

\* The beams and their scores when the loop has stopped, per batch element.
FinalPrompts == unflatten_beams(prompt)

FinalLogProbs == unflatten_beams(log_probs)

\* The one-to-one maps of the beam axis onto itself.
BeamPermutations ==
    {f \in [Range(num_beams) -> Range(num_beams)] :
        \A i, j \in Range(num_beams) : i # j => f[i] # f[j]}

\* t is the first token of largest probability in distribution d.
IsArgMax(d, t) == \A u \in Vocab : d[u] <= d[t] /\ (u < t => d[u] < d[t])

\* Row r holds the end token at a position the caller did not mark fixed.
RowDone(r) ==
    \E p \in Positions : prompt[r][p] = end_token_id /\ ~CallerMask(r \div num_beams, p)

\* Row r holds an end token the loop wrote during this call.
NewEndToken(r) ==
    \E p \in Positions :
        /\ start_index <= p /\ p < index
        /\ prompt[r][p] = end_token_id
        /\ ~CallerMask(r \div num_beams, p)

----------------------------------------------------------------------------
\* C1: in every loop state and in what the call returns, every beam of every
\* batch element holds the caller's prompt token at every position the
\* caller's mask marks fixed, whatever the oracle returned and top-k selected.
C1_MaskPreserved ==
    /\ pc # "idle" => \A r \in Rows : KeepsFixed(prompt[r], r \div num_beams)
    /\ pc = "done" =>
          \A b \in Range(batch_size) :
              IF return_all_beams
              THEN \A k \in Range(num_beams) : KeepsFixed(result.sorted_prompts[b][k], b)
              ELSE KeepsFixed(result[b], b)

\* The call has returned after a step over a fixed position at which top-k
\* had selected a token other than the prompt's.
C1_Witness ==
    /\ pc = "done"
    /\ iterations > 0
    /\ \E b \in Range(batch_size), k \in Range(num_beams) :
          /\ CallerMask(b, LastPosition)
          /\ indices[b][k] % vocab_size # caller_prompt[b][LastPosition]

\* C2: a call performs at most max(0, length - start_index) loop steps, with
\* or without an end token; once the budget is used up no further step is
\* possible and the call returns.
C2_StepCeiling ==
    /\ iterations <= Max0(max_length - start_index)
    /\ (pc = "loop" /\ iterations >= Max0(max_length - start_index)) =>
          (~ENABLED Body /\ ENABLED (ReturnAllBeams \/ ReturnTopBeam))

\* The call has returned with the whole budget used although an end token
\* was configured: the end-token condition never became true.
C2_Witness ==
    /\ pc = "done"
    /\ end_token_id # None
    /\ iterations = max_length - start_index
    /\ iterations >= 2
    /\ cond(prompt)

\* C3 as stated: with an end token configured and budget left, a further step
\* is run exactly while some batch element has no beam holding the end token
\* at a non-fixed position; one such beam per batch element stops the loop.
C3_OneBeamSuffices ==
    (pc = "loop" /\ end_token_id # None /\ BudgetLeft) =>
        (ENABLED Body <=>
            \E b \in Range(batch_size) : \A k \in Range(num_beams) : ~RowDone(b * num_beams + k))

\* C3 as amended: with an end token configured and budget left, a further step
\* is run exactly while some beam of some batch element holds no end token at
\* a non-fixed position; the loop stops once every beam of every batch
\* element holds one.
C3_EveryBeam ==
    (pc = "loop" /\ end_token_id # None /\ BudgetLeft) =>
        (ENABLED Body <=> \E r \in Rows : ~RowDone(r))

\* After a step, with budget left, every batch element has a beam holding the
\* end token at a non-fixed position while another beam holds none, and the
\* loop goes on.
C3_Witness ==
    /\ pc = "loop"
    /\ end_token_id # None
    /\ iterations > 0
    /\ BudgetLeft
    /\ \A b \in Range(batch_size) : \E k \in Range(num_beams) : RowDone(b * num_beams + k)
    /\ \E r \in Rows : ~RowDone(r)
    /\ ENABLED Body

\* C4 as stated: while no beam holds an end token the loop wrote during this
\* call, and budget is left, the loop goes on; end-token ids the caller's
\* prompt already held do not stop it, masked or not.
C4_OnlyNewEndTokens ==
    (pc = "loop" /\ end_token_id # None /\ BudgetLeft /\ \A r \in Rows : ~NewEndToken(r)) =>
        ENABLED Body

\* C5: with no end token configured and start_index < length, the loop writes
\* positions start_index, start_index + 1, ... in that order, once each, never
\* stops while budget is left, and has run exactly length - start_index steps
\* when the call returns.
C5_RunsWholeBudget ==
    (pc # "idle" /\ end_token_id = None /\ start_index < max_length) =>
        /\ written = [i \in 1 .. iterations |-> start_index + i - 1]
        /\ (pc = "loop" /\ BudgetLeft) => ENABLED Body
        /\ pc = "done" => iterations = max_length - start_index
        /\ pc = "done" => written = [i \in 1 .. (max_length - start_index) |-> start_index + i - 1]

\* A call without end token has returned after at least two steps.
C5_Witness ==
    /\ pc = "done"
    /\ end_token_id = None
    /\ start_index < max_length
    /\ Len(written) >= 2

\* C6: in every loop state the sequence buffer, the mask and the scores (and
\* the cache, when given) have batch_size * num_beams rows, every row of the
\* buffer has length positions, and with return_all_beams the call returns
\* sequences of shape (batch, num_beams, length) and scores of shape
\* (batch, num_beams).
C6_BeamCount ==
    /\ pc # "idle" =>
          /\ DOMAIN prompt = Range(batch_size * num_beams)
          /\ DOMAIN mask = Range(batch_size * num_beams)
          /\ DOMAIN log_probs = Range(batch_size * num_beams)
          /\ has_cache => DOMAIN cache = Range(batch_size * num_beams)
          /\ \A r \in DOMAIN prompt : DOMAIN prompt[r] = Range(max_length)
          /\ batch_size = Cardinality(DOMAIN caller_prompt)
    /\ (pc = "done" /\ return_all_beams) =>
          /\ DOMAIN result.sorted_prompts = Range(batch_size)
          /\ DOMAIN result.sorted_log_probs = Range(batch_size)
          /\ \A b \in Range(batch_size) :
                /\ DOMAIN result.sorted_prompts[b] = Range(num_beams)
                /\ DOMAIN result.sorted_log_probs[b] = Range(num_beams)
                /\ \A k \in Range(num_beams) :
                      DOMAIN result.sorted_prompts[b][k] = Range(max_length)

\* All beams of a call with two batch elements and two beams were returned
\* after a step.
C6_Witness ==
    /\ pc = "done"
    /\ return_all_beams
    /\ batch_size = 2
    /\ num_beams = 2
    /\ iterations > 0

\* C7: with return_all_beams, the returned scores of every batch element are
\* in non-increasing order.
C7_ScoresDescending ==
    (pc = "done" /\ return_all_beams) =>
        \A b \in Range(batch_size) : \A i \in Range(num_beams - 1) :
            result.sorted_log_probs[b][i] >= result.sorted_log_probs[b][i + 1]

\* All beams were returned from a final state whose first beam scored lower
\* than its second.
C7_Witness ==
    /\ pc = "done"
    /\ return_all_beams
    /\ num_beams >= 2
    /\ iterations > 0
    /\ \E b \in Range(batch_size) : FinalLogProbs[b][0] < FinalLogProbs[b][1]

\* C8: with return_all_beams, the returned (sequence, score) pairs of every
\* batch element are the final beams' pairs under one permutation of the
\* beam axis: no beam is lost, duplicated or given another beam's score.
C8_SortKeepsPairs ==
    (pc = "done" /\ return_all_beams) =>
        \A b \in Range(batch_size) :
            \E f \in BeamPermutations : \A i \in Range(num_beams) :
                /\ result.sorted_prompts[b][i] = FinalPrompts[b][f[i]]
                /\ result.sorted_log_probs[b][i] = FinalLogProbs[b][f[i]]

\* All beams were returned, and the sort moved a beam whose sequence and
\* score both differ from the other's.
C8_Witness ==
    /\ pc = "done"
    /\ return_all_beams
    /\ num_beams >= 2
    /\ \E b \in Range(batch_size) :
          /\ FinalLogProbs[b][0] < FinalLogProbs[b][1]
          /\ FinalPrompts[b][0] # FinalPrompts[b][1]
          /\ result.sorted_prompts[b][0] = FinalPrompts[b][1]

\* C9: without return_all_beams, the returned sequence of every batch element
\* is the final sequence of a beam of highest final score, and of the one
\* with the lowest beam index among those.
C9_TopBeam ==
    (pc = "done" /\ ~return_all_beams) =>
        \A b \in Range(batch_size) :
            \E k \in Range(num_beams) :
                /\ result[b] = FinalPrompts[b][k]
                /\ \A j \in Range(num_beams) : FinalLogProbs[b][j] <= FinalLogProbs[b][k]
                /\ \A j \in Range(k) : FinalLogProbs[b][j] < FinalLogProbs[b][k]

\* The top beam was returned where two beams with different sequences tie
\* for the highest score.
C9_Witness ==
    /\ pc = "done"
    /\ ~return_all_beams
    /\ num_beams >= 2
    /\ \E b \in Range(batch_size) :
          /\ FinalLogProbs[b][0] = FinalLogProbs[b][1]
          /\ FinalPrompts[b][0] # FinalPrompts[b][1]
          /\ result[b] = FinalPrompts[b][0]

\* C10: with num_beams = 1, the token top-k selects at every step is the
\* argmax of the oracle's distribution, the sequence buffer equals that of
\* greedy decoding on the same oracle after every step, and the call returns
\* the greedy sequences.
C10_GreedyEquivalence ==
    (pc # "idle" /\ num_beams = 1) =>
        /\ prompt = greedy
        /\ iterations > 0 =>
              \A b \in Range(batch_size) : IsArgMax(probs[b], indices[b][0] % vocab_size)
        /\ pc = "done" =>
              \A b \in Range(batch_size) :
                  IF return_all_beams
                  THEN result.sorted_prompts[b][0] = greedy[b]
                  ELSE result[b] = greedy[b]

\* A call with one beam has returned after two steps that wrote a token
\* other than the prompt's.
C10_Witness ==
    /\ pc = "done"
    /\ num_beams = 1
    /\ iterations >= 2
    /\ \E b \in Range(batch_size) : greedy[b] # caller_prompt[b]

\* C11: before the first step every batch element has its first beam at
\* log-probability 0 and every other beam at the sentinel, and every candidate
\* top_k selects at the first step comes from that first beam.
C11_FirstStepFromFirstBeam ==
    /\ (pc = "loop" /\ iterations = 0) =>
            \A b \in Range(batch_size), k \in Range(num_beams) :
                log_probs[b * num_beams + k] = (IF k = 0 THEN 0 ELSE Sentinel)
    /\ iterations = 1 =>
            \A b \in Range(batch_size), k \in Range(num_beams) :
                indices[b][k] \div vocab_size = 0

\* C12: a sampler with num_beams < 1 never gets past the set-up of its first
\* call: the call raises, no step of the loop runs, next is never invoked and
\* nothing is returned.
C12_NoBeamsFails ==
    num_beams < 1 =>
        /\ pc \in {"idle", "error"}
        /\ pc = "idle" => ENABLED CallFails
        /\ iterations = 0
        /\ oracle_calls = 0
        /\ result = NoTensor

C12_Witness == pc = "error" /\ num_beams = 0 /\ iterations = 0 /\ result = NoTensor

\* The mask of the call has another shape than the prompt.
MaskMismatch == caller_mask # NoTensor /\ DOMAIN caller_mask # DOMAIN caller_prompt

\* C13: a call whose mask has another shape than the prompt ends in an error
\* and never returns sequences.
C13_MismatchedMaskFails == MaskMismatch => (pc # "done" /\ result = NoTensor)

\* C14: once a call has taken its arguments, no step changes the caller's
\* prompt, mask or cache; the writes go to the replicated beam buffers.
C14_CallerArgumentsKept ==
    [][pc # "idle" => UNCHANGED <<caller_prompt, caller_mask, caller_cache>>]_vars

C14_Witness ==
    /\ pc = "done"
    /\ has_cache
    /\ caller_mask # NoTensor
    /\ \E r \in Rows : prompt[r] # caller_prompt[r \div num_beams] /\ cache[r] # << >>
    /\ caller_cache = [b \in Range(batch_size) |-> << >>]

\* The cumulative log-probability of candidate j (beam j div vocab_size, token
\* j mod vocab_size) of batch element b at the last step.
CandidateScore(b, j) ==
    FAdd(prev_log_probs[b * num_beams + (j \div vocab_size)],
         Log(probs[b * num_beams + (j \div vocab_size)][j % vocab_size]))

Selected(b) == {indices[b][k] : k \in Range(num_beams)}

\* C15: at every step and for every batch element, the num_beams candidates
\* kept are distinct (beam, token) pairs, and no candidate left out scores
\* higher than a candidate kept.
C15_TopCandidatesKept ==
    iterations > 0 =>
        \A b \in Range(batch_size) :
            /\ Cardinality(Selected(b)) = num_beams
            /\ \A j \in Range(num_beams * vocab_size) \ Selected(b) :
                   \A s \in Selected(b) : CandidateScore(b, j) <= CandidateScore(b, s)

C15_Witness ==
    /\ iterations = 2
    /\ num_beams = 2
    /\ \E b \in Range(batch_size) :
        /\ {s \div vocab_size : s \in Selected(b)} = Range(num_beams)
        /\ \E j \in Range(num_beams * vocab_size) \ Selected(b) :
               \A s \in Selected(b) : CandidateScore(b, j) < CandidateScore(b, s)

\* The flat row the beam kept in slot k of batch element b was gathered from,
\* and the token selected for it: indices div and mod vocab_size.
OriginOf(b, k) == b * num_beams + (indices[b][k] \div vocab_size)

TokenOf(b, k) == indices[b][k] % vocab_size

\* C16: after a step at position i, every retained beam's sequence is the
\* pre-step sequence of its originating beam except possibly at position i,
\* where it holds the selected token unless the mask fixes that position,
\* and its score is the originating beam's pre-step score plus (in float32)
\* the log-probability the oracle gave the selected token for that beam.
C16_StepFromOrigin ==
    iterations > 0 =>
        \A b \in Range(batch_size), k \in Range(num_beams) :
            LET r == b * num_beams + k
                o == OriginOf(b, k)
                i == last_call.index
            IN /\ \A q \in Positions \ {i} : prompt[r][q] = last_call.prompt[o][q]
               /\ ~CallerMask(b, i) => prompt[r][i] = TokenOf(b, k)
               /\ log_probs[r] = FAdd(prev_log_probs[o], Log(probs[o][TokenOf(b, k)]))

C16_Witness ==
    /\ iterations = 2
    /\ \E b \in Range(batch_size), k \in Range(num_beams) :
        /\ OriginOf(b, k) # b * num_beams + k
        /\ last_call.prompt[OriginOf(b, k)] # last_call.prompt[b * num_beams + k]
        /\ ~CallerMask(b, last_call.index)
        /\ prompt[b * num_beams + k][last_call.index] # last_call.prompt[OriginOf(b, k)][last_call.index]
        /\ log_probs[b * num_beams + k] \notin {NegInf, Sentinel, 0}

\* C17: after every step of a call that was given a cache, the cache entry of
\* every beam slot is the entry the oracle returned for the originating beam
\* of the sequence gathered into that slot.
C17_CacheFollowsBeam ==
    (has_cache /\ iterations > 0) =>
        \A b \in Range(batch_size), k \in Range(num_beams) :
            LET r == b * num_beams + k
                o == OriginOf(b, k)
            IN /\ cache[r] = Append(last_call.cache[o], last_call.prompt[o])
               /\ \A q \in Positions \ {last_call.index} : prompt[r][q] = last_call.prompt[o][q]

C17_Witness ==
    /\ has_cache
    /\ iterations = 2
    /\ \E b \in Range(batch_size), k \in Range(num_beams) :
        /\ OriginOf(b, k) # b * num_beams + k
        /\ Append(last_call.cache[OriginOf(b, k)], last_call.prompt[OriginOf(b, k)])
                # Append(last_call.cache[b * num_beams + k], last_call.prompt[b * num_beams + k])
        /\ cache[b * num_beams + k]
                = Append(last_call.cache[OriginOf(b, k)], last_call.prompt[OriginOf(b, k)])

\* C18: next is invoked exactly once per step of the loop, at positions
\* start_index, start_index + 1, ... in this order, each time on the sequence
\* buffer and the cache the previous step left, and never once the loop has
\* ended.
C18_OneInvocationPerStep ==
    /\ [](oracle_calls = iterations)
    /\ [][oracle_calls' # oracle_calls =>
            /\ pc = "loop" /\ pc' = "loop"
            /\ oracle_calls' = oracle_calls + 1
            /\ iterations' = iterations + 1
            /\ last_call'.index = (IF oracle_calls = 0 THEN start_index ELSE last_call.index + 1)
            /\ last_call'.prompt = prompt
            /\ last_call'.cache = cache]_vars
    /\ [][(pc = "done" \/ pc' = "done") => oracle_calls' = oracle_calls]_vars

C18_Witness ==
    /\ pc = "done"
    /\ oracle_calls = 2
    /\ has_cache
    /\ last_call.index = start_index + 1
    /\ last_call.prompt # create_beams(caller_prompt)
    /\ \E r \in Rows : last_call.cache[r] # << >>

\* C19: in every state of the loop, and in what is returned after it, every
\* beam holds the caller's prompt token at every position before start_index
\* and at every position from the current loop index on.
C19_UnreachedPositionsKept ==
    pc \in {"loop", "done"} =>
        /\ \A r \in Rows, q \in Positions :
               (q < start_index \/ q >= index) => prompt[r][q] = caller_prompt[r \div num_beams][q]
        /\ (pc = "done" /\ return_all_beams) =>
               \A b \in Range(batch_size), k \in Range(num_beams), q \in Positions :
                   (q < start_index \/ q >= index) =>
                       result.sorted_prompts[b][k][q] = caller_prompt[b][q]
        /\ (pc = "done" /\ ~return_all_beams) =>
               \A b \in Range(batch_size), q \in Positions :
                   (q < start_index \/ q >= index) => result[b][q] = caller_prompt[b][q]

\* A call stopped by the end token before its budget was used up, on two
\* different prompts, with a written and an unreached position.
C19_Witness ==
    /\ pc = "done"
    /\ batch_size = 2
    /\ caller_prompt[0] # caller_prompt[1]
    /\ iterations = 1
    /\ index < max_length
    /\ \E r \in Rows : prompt[r][start_index] # caller_prompt[r \div num_beams][start_index]

\* C20 as stated: the score of every returned beam is the sum, over the steps
\* performed, of the log-probability the oracle gave (for the beam's ancestor
\* at that step) to the token the returned sequence holds at the step's
\* position, masked steps included.
C20_ScoreIsHeldTokenSum ==
    pc = "done" =>
        \A b \in Range(batch_size), k \in Range(num_beams) :
            (return_all_beams \/ k = ArgMax(FinalLogProbs[b])) =>
                log_probs[b * num_beams + k] = held_sum[b * num_beams + k]

\* C20, amended: the score of every beam is, in float32, the initial
\* log-probability of the initial beam it descends from (0 for the first beam,
\* -1e9 for the others) plus the sum, over the steps performed, of the
\* log-probability the oracle gave (for the beam's ancestor at that step) to
\* the token top_k selected, which at a masked step is not the token the
\* sequence keeps.
C20_ScoreIsSelectedTokenSum ==
    pc \in {"loop", "done"} =>
        \A r \in Rows : log_probs[r] = FAdd(InitialRow(num_beams)[root[r]], selected_sum[r])

\* A returned beam of finite score whose sequence keeps, at a masked step, a
\* token other than the selected one, next to a beam that started at -1e9.
C20_Witness ==
    /\ pc = "done"
    /\ iterations = 2
    /\ \E r \in Rows :
        /\ root[r] = 0
        /\ log_probs[r] # NegInf
        /\ held_sum[r] # selected_sum[r]
        /\ \E q \in Positions : q >= start_index /\ CallerMask(r \div num_beams, q)
    /\ \E r \in Rows : root[r] # 0 /\ log_probs[r] = Sentinel

\* No position the loop can write is masked for batch element b.
NothingMaskedFrom(b) == \A q \in Positions : q >= start_index => ~CallerMask(b, q)

BestOf(scores, b) ==
    CHOOSE s \in {scores[b * num_beams + k] : k \in Range(num_beams)} :
        \A k \in Range(num_beams) : scores[b * num_beams + k] <= s

\* C22: at every step every retained beam's score is at most the score its
\* originating beam had before the step, and so the best score of a batch
\* element does not increase over the step.
C22_ScoresNeverIncrease ==
    iterations > 0 =>
        \A b \in Range(batch_size) :
            /\ \A k \in Range(num_beams) :
                   log_probs[b * num_beams + k] <= prev_log_probs[OriginOf(b, k)]
            /\ BestOf(log_probs, b) <= BestOf(prev_log_probs, b)

C22_Witness ==
    /\ iterations = 2
    /\ num_beams = 2
    /\ \E b \in Range(batch_size) :
        /\ BestOf(log_probs, b) < BestOf(prev_log_probs, b)
        /\ BestOf(log_probs, b) # NegInf
        /\ \E k \in Range(num_beams) :
               /\ OriginOf(b, k) # b * num_beams + k
               /\ log_probs[b * num_beams + k] < prev_log_probs[OriginOf(b, k)]

====
